---- MODULE Spec2Model ----
(***************************************************************************)
(* Model of the Feather finance demo: the SQLite store created by          *)
(* setup_database.py, the Data Access Layer of database.py (one connection *)
(* and one transaction per call) and the Finnhub candle client of          *)
(* finnhub_client.py.                                                      *)
(*                                                                         *)
(* Python values: a dict is a TLA+ function whose DOMAIN is its key set    *)
(* (a missing key is a key outside DOMAIN), None is the empty tuple <<>>   *)
(* and a present value v is the one-element tuple <<v>>, so that a column  *)
(* bound to None and a column bound to a value can be told apart.          *)
(***************************************************************************)
EXTENDS Integers, Sequences, FiniteSets, TLC

VARIABLES db, now, last, httpLog, sleepLog, seedFile

vars == <<db, now, last, httpLog, sleepLog, seedFile>>

\* ------------------------------------------------------------------ bounds

\* Cap of each table's AUTOINCREMENT counter in the single-table specifications.
MaxId == 3

\* Cap of the sum of the AUTOINCREMENT counters in the whole-layer specification.
MaxOps == 1

\* Cap of the sum of the stock_data and news_articles counters in the
\* specification of the two ingesting inserts.
MaxIngest == 2

\* Cap of the clock (seconds of CURRENT_TIMESTAMP / time.time()).
MaxTime == 2

\* Cap of the number of HTTP requests in one run of the client specification.
MaxRequests == 2

\* ------------------------------------------------------------ Python values

None == <<>>

Some(v) == <<v>>

Val(x) == x[1]

HasKey(d, k) == k \in DOMAIN d

\* dict.get(k): the value, or None when the key is missing
Get(d, k) == IF HasKey(d, k) THEN d[k] ELSE None

\* ------------------------------------------------------------------ schema

Tables == {"stocks", "stock_data", "predictions", "news_articles", "watchlists"}

\* The store before setup_database.py has run: sqlite3.connect creates an empty
\* file, so no table exists.
EmptyStore ==
  [ schema        |-> FALSE,
    stocks        |-> {},
    stock_data    |-> {},
    predictions   |-> {},
    news_articles |-> {},
    watchlists    |-> {},
    seq           |-> [t \in Tables |-> 0] ]

\* The reference list of setup_database.py, in its order.
SampleStocks ==
  << [ticker |-> "AAPL",  name |-> "Apple Inc.",            sector |-> "Technology"],
     [ticker |-> "MSFT",  name |-> "Microsoft Corporation", sector |-> "Technology"],
     [ticker |-> "GOOGL", name |-> "Alphabet Inc.",         sector |-> "Technology"],
     [ticker |-> "TSLA",  name |-> "Tesla Inc.",            sector |-> "Automotive"],
     [ticker |-> "NVDA",  name |-> "NVIDIA Corporation",    sector |-> "Technology"],
     [ticker |-> "AMZN",  name |-> "Amazon.com Inc.",       sector |-> "E-commerce"] >>

\* INSERT OR REPLACE in place of INSERT: a UNIQUE(ticker) conflict deletes the
\* stored row and stores the new one under a new id.
InsertOrReplaceStock(store, s) ==
  LET rowid == store.seq.stocks + 1
  IN [store |-> [store EXCEPT !.stocks = {r \in @ : r.ticker # s.ticker}
                                           \cup {[id |-> rowid, ticker |-> s.ticker,
                                                  name |-> s.name, sector |-> s.sector]},
                              !.seq.stocks = rowid],
      exc |-> "none"]

\* INSERT INTO stocks (plain INSERT): a UNIQUE(ticker) conflict raises
\* IntegrityError, the statement is undone and no rowid is consumed.
InsertStock(store, s) ==
  IF \E r \in store.stocks : r.ticker = s.ticker
    THEN [store |-> store, exc |-> "IntegrityError"]
    ELSE LET rowid == store.seq.stocks + 1
         IN [store |-> [store EXCEPT !.stocks = @ \cup {[id |-> rowid, ticker |-> s.ticker,
                                                       name |-> s.name, sector |-> s.sector]},
                                     !.seq.stocks = rowid],
             exc |-> "none"]

\* The seeding loop: try each stock, pass on IntegrityError.
RECURSIVE SeedStocks(_, _, _)
SeedStocks(store, list, i) ==
  IF i > Len(list) THEN store
  ELSE SeedStocks(InsertStock(store, list[i]).store, list, i + 1)

\* setup_database.py as a whole: CREATE TABLE IF NOT EXISTS for every table,
\* the seeding loop, one commit.
setup_database(store) == SeedStocks([store EXCEPT !.schema = TRUE], SampleStocks, 1)

\* ----------------------------------------------- connection and transaction

\* Environment failures a call can meet: none, the statement fails (I/O error,
\* locked file), the progress print fails after the statement, the commit fails.
Faults == {"none", "execute", "print", "commit"}

\* cursor.execute preamble shared by every statement: a storage fault or a
\* missing table raises OperationalError before anything is written.
ExecuteFails(store, fault) == fault = "execute" \/ ~store.schema

\* Outcome of the body of a `with self.get_connection()` block: the connection's
\* working copy, the exception that left the block ("none" if it returned), the
\* returned value and the number of statements executed.
Outcome(store, exc, ret, execs) ==
  [store |-> store, exc |-> exc, ret |-> ret, execs |-> execs]

\* get_connection without conn.rollback(): what the body wrote stays.
get_connection_NoRollback(store, body, fault) ==
  IF body.exc # "none" THEN body
  ELSE IF fault = "commit" THEN Outcome(body.store, "OperationalError", None, body.execs)
  ELSE body

\* get_connection: commit when the body returns, roll back and re-raise when it
\* (or the commit) raises. The result's store is the committed content.
get_connection(store, body, fault) ==
  IF body.exc # "none" THEN Outcome(store, body.exc, None, body.execs)
  ELSE IF fault = "commit" THEN Outcome(store, "OperationalError", None, body.execs)
  ELSE body

\* What a body does after its statement: the progress print, then return.
AfterExecute(written, ret, fault) ==
  IF fault = "print" THEN Outcome(written, "OSError", None, 1)
  ELSE Outcome(written, "none", ret, 1)

\* --------------------------------------------------------------- stock_data

StockDataColumns == {"ticker", "open", "high", "low", "close", "volume", "timestamp"}

\* INSERT OR REPLACE in place of INSERT OR IGNORE: a UNIQUE conflict deletes the
\* stored row and stores the new one.
InsertOrReplaceStockData(store, p) ==
  LET rowid  == store.seq.stock_data + 1
      bumped == [store EXCEPT !.seq.stock_data = rowid]
  IN IF \E c \in StockDataColumns : p[c] = None
       THEN [store |-> bumped, rowid |-> 0]
       ELSE [store |-> [bumped EXCEPT !.stock_data =
                          {r \in @ : ~(r.ticker = Val(p.ticker) /\ r.timestamp = Val(p.timestamp))}
                          \cup {[id |-> rowid, ticker |-> Val(p.ticker), open |-> Val(p.open),
                                 high |-> Val(p.high), low |-> Val(p.low), close |-> Val(p.close),
                                 volume |-> Val(p.volume), timestamp |-> Val(p.timestamp),
                                 created_at |-> now]}],
             rowid |-> rowid]

\* One connection shared by all calls: sqlite3_last_insert_rowid still holds the
\* rowid of the previous insert when the row is skipped.
InsertOrIgnoreStockData_SharedConnection(store, p) ==
  LET rowid  == store.seq.stock_data + 1
      bumped == [store EXCEPT !.seq.stock_data = rowid]
      isNull == \E c \in StockDataColumns : p[c] = None
      isDup  == \E r \in store.stock_data :
                   r.ticker = Val(p.ticker) /\ r.timestamp = Val(p.timestamp)
  IN IF isNull \/ isDup
       THEN [store |-> bumped, rowid |-> store.seq.stock_data]
       ELSE [store |-> [bumped EXCEPT !.stock_data = @ \cup
                          {[id |-> rowid, ticker |-> Val(p.ticker), open |-> Val(p.open),
                            high |-> Val(p.high), low |-> Val(p.low), close |-> Val(p.close),
                            volume |-> Val(p.volume), timestamp |-> Val(p.timestamp),
                            created_at |-> now]}],
             rowid |-> rowid]

\* INSERT OR IGNORE INTO stock_data: a NOT NULL or UNIQUE(ticker, timestamp)
\* conflict skips the row without an error. The AUTOINCREMENT counter advances
\* even when the row is skipped; the foreign key is declared but the connection
\* never turns foreign_keys on, so it is not checked. rowid is
\* sqlite3_last_insert_rowid of the fresh connection: 0 unless a row went in.
InsertOrIgnoreStockData(store, p) ==
  LET rowid  == store.seq.stock_data + 1
      bumped == [store EXCEPT !.seq.stock_data = rowid]
      isNull == \E c \in StockDataColumns : p[c] = None
      isDup  == \E r \in store.stock_data :
                   r.ticker = Val(p.ticker) /\ r.timestamp = Val(p.timestamp)
  IN IF isNull \/ isDup
       THEN [store |-> bumped, rowid |-> 0]
       ELSE [store |-> [bumped EXCEPT !.stock_data = @ \cup
                          {[id |-> rowid, ticker |-> Val(p.ticker), open |-> Val(p.open),
                            high |-> Val(p.high), low |-> Val(p.low), close |-> Val(p.close),
                            volume |-> Val(p.volume), timestamp |-> Val(p.timestamp),
                            created_at |-> now]}],
             rowid |-> rowid]

\* Database.insert_stock_data
insert_stock_data(store, data, fault) ==
  get_connection(store,
    IF ~(StockDataColumns \subseteq DOMAIN data) THEN Outcome(store, "KeyError", None, 0)
    ELSE IF ExecuteFails(store, fault) THEN Outcome(store, "OperationalError", None, 1)
    ELSE LET res == InsertOrIgnoreStockData(store, data)
         IN AfterExecute(res.store, Some(res.rowid), fault),
    fault)

\* ORDER BY key DESC over a set of rows: every sequence that lists each row once
\* with its key never increasing (rows with equal keys come in any order): a
\* row with the greatest key, then the rest in such an order.
RECURSIVE OrderByDesc(_, _)
OrderByDesc(rows, key) ==
  IF rows = {} THEN {<<>>}
  ELSE UNION {{<<r>> \o s : s \in OrderByDesc(rows \ {r}, key)} :
                r \in {x \in rows : \A y \in rows : x[key] >= y[key]}}

\* The LIMIT clause left out.
Limit_Missing(s, n) == s

\* LIMIT n: a negative n is no limit.
Limit(s, n) == IF n < 0 \/ n >= Len(s) THEN s ELSE SubSeq(s, 1, n)

\* Database.get_stock_data: the set of results the query may give.
get_stock_data(store, ticker, limit, fault) ==
  { get_connection(store,
      IF ExecuteFails(store, fault) THEN Outcome(store, "OperationalError", None, 1)
      ELSE Outcome(store, "none", Limit(s, limit), 1),
      fault) :
    s \in OrderByDesc({r \in store.stock_data : r.ticker = ticker}, "timestamp") }

\* -------------------------------------------------------------- predictions

PredictionRequired == {"ticker", "predicted_trend", "confidence", "model_version"}

\* INSERT INTO predictions (plain INSERT): a NOT NULL conflict raises
\* IntegrityError and nothing is written; there is no uniqueness constraint.
\* predicted_change comes from prediction.get and may be NULL; timestamp is
\* never bound by the statement, so it is DEFAULT CURRENT_TIMESTAMP.
InsertIntoPredictions(store, p) ==
  LET rowid == store.seq.predictions + 1
  IN IF \E c \in PredictionRequired : p[c] = None
       THEN [store |-> store, exc |-> "IntegrityError", rowid |-> 0]
       ELSE [store |-> [store EXCEPT !.seq.predictions = rowid,
                          !.predictions = @ \cup
                            {[id |-> rowid, ticker |-> Val(p.ticker),
                              predicted_trend |-> Val(p.predicted_trend),
                              confidence |-> Val(p.confidence),
                              predicted_change |-> Get(p, "predicted_change"),
                              model_version |-> Val(p.model_version),
                              timestamp |-> now]}],
             exc |-> "none", rowid |-> rowid]

\* Database.insert_prediction
insert_prediction(store, prediction, fault) ==
  get_connection(store,
    IF ~(PredictionRequired \subseteq DOMAIN prediction) THEN Outcome(store, "KeyError", None, 0)
    ELSE IF ExecuteFails(store, fault) THEN Outcome(store, "OperationalError", None, 1)
    ELSE LET res == InsertIntoPredictions(store, prediction)
         IN IF res.exc # "none" THEN Outcome(res.store, res.exc, None, 1)
            ELSE AfterExecute(res.store, Some(res.rowid), fault),
    fault)

\* ORDER BY timestamp ASC in place of DESC: the oldest row.
FetchOne_Oldest(rows, key) ==
  IF rows = {} THEN {None}
  ELSE {Some(r) : r \in {x \in rows : \A y \in rows : x[key] <= y[key]}}

\* ORDER BY timestamp DESC LIMIT 1 / fetchone: the first row of any admissible
\* order, or no row.
FetchOne(rows, key) ==
  IF rows = {} THEN {None} ELSE {Some(s[1]) : s \in OrderByDesc(rows, key)}

\* Database.get_latest_prediction: the set of results the query may give.
get_latest_prediction(store, ticker, fault) ==
  { get_connection(store,
      IF ExecuteFails(store, fault) THEN Outcome(store, "OperationalError", None, 1)
      ELSE Outcome(store, "none", row, 1),
      fault) :
    row \in FetchOne({r \in store.predictions : r.ticker = ticker}, "timestamp") }

\* ------------------------------------------------------------ news_articles

\* The uniqueness constraint put on (ticker, headline) in place of url.
InsertOrIgnoreNews_ByHeadline(store, p) ==
  LET rowid  == store.seq.news_articles + 1
      bumped == [store EXCEPT !.seq.news_articles = rowid]
      isNull == p.ticker = None \/ p.headline = None
      isDup  == \E r \in store.news_articles :
                   r.ticker = Val(p.ticker) /\ r.headline = Val(p.headline)
  IN IF isNull \/ isDup
       THEN [store |-> bumped, rowid |-> 0]
       ELSE [store |-> [bumped EXCEPT !.news_articles = @ \cup
                          {[id |-> rowid, ticker |-> Val(p.ticker), headline |-> Val(p.headline),
                            summary |-> p.summary, content |-> None, sentiment |-> p.sentiment,
                            source |-> p.source, url |-> p.url, published_at |-> None,
                            created_at |-> now]}],
             rowid |-> rowid]

\* UNIQUE(url) with NULL treated as a value like any other: a second article
\* without url conflicts with the first.
InsertOrIgnoreNews_NullsConflict(store, p) ==
  LET rowid  == store.seq.news_articles + 1
      bumped == [store EXCEPT !.seq.news_articles = rowid]
      isNull == p.ticker = None \/ p.headline = None
      isDup  == \E r \in store.news_articles : r.url = p.url
  IN IF isNull \/ isDup
       THEN [store |-> bumped, rowid |-> 0]
       ELSE [store |-> [bumped EXCEPT !.news_articles = @ \cup
                          {[id |-> rowid, ticker |-> Val(p.ticker), headline |-> Val(p.headline),
                            summary |-> p.summary, content |-> None, sentiment |-> p.sentiment,
                            source |-> p.source, url |-> p.url, published_at |-> None,
                            created_at |-> now]}],
             rowid |-> rowid]

\* INSERT OR IGNORE INTO news_articles: a NOT NULL (ticker, headline) or
\* UNIQUE(url) conflict skips the row without an error; NULL urls never
\* conflict with one another. content and published_at are never bound.
InsertOrIgnoreNews(store, p) ==
  LET rowid  == store.seq.news_articles + 1
      bumped == [store EXCEPT !.seq.news_articles = rowid]
      isNull == p.ticker = None \/ p.headline = None
      isDup  == p.url # None /\ \E r \in store.news_articles : r.url = p.url
  IN IF isNull \/ isDup
       THEN [store |-> bumped, rowid |-> 0]
       ELSE [store |-> [bumped EXCEPT !.news_articles = @ \cup
                          {[id |-> rowid, ticker |-> Val(p.ticker), headline |-> Val(p.headline),
                            summary |-> p.summary, content |-> None, sentiment |-> p.sentiment,
                            source |-> p.source, url |-> p.url, published_at |-> None,
                            created_at |-> now]}],
             rowid |-> rowid]

\* Database.insert_news_article: the progress print slices article['headline'],
\* which raises TypeError on None after the statement has run.
insert_news_article(store, article, fault) ==
  get_connection(store,
    IF ~({"ticker", "headline"} \subseteq DOMAIN article) THEN Outcome(store, "KeyError", None, 0)
    ELSE IF ExecuteFails(store, fault) THEN Outcome(store, "OperationalError", None, 1)
    ELSE LET res == InsertOrIgnoreNews(store,
                      [ticker |-> article.ticker, headline |-> article.headline,
                       summary |-> Get(article, "summary"), sentiment |-> Get(article, "sentiment"),
                       source |-> Get(article, "source"), url |-> Get(article, "url")])
         IN IF article.headline = None THEN Outcome(res.store, "TypeError", None, 1)
            ELSE AfterExecute(res.store, Some(res.rowid), fault),
    fault)

\* Database.get_recent_news: the set of results the query may give.
get_recent_news(store, ticker, limit, fault) ==
  { get_connection(store,
      IF ExecuteFails(store, fault) THEN Outcome(store, "OperationalError", None, 1)
      ELSE Outcome(store, "none", Limit(s, limit), 1),
      fault) :
    s \in OrderByDesc({r \in store.news_articles : r.ticker = ticker}, "created_at") }

\* --------------------------------------------------------------- watchlists

\* INSERT OR REPLACE in place of INSERT OR IGNORE: a UNIQUE conflict deletes the
\* stored entry and stores a new one, with a new added_at.
InsertOrReplaceWatchlist(store, user_id, ticker) ==
  LET rowid  == store.seq.watchlists + 1
      bumped == [store EXCEPT !.seq.watchlists = rowid]
  IN IF user_id = None \/ ticker = None
       THEN [store |-> bumped, rowid |-> 0]
       ELSE [store |-> [bumped EXCEPT !.watchlists =
                          {r \in @ : ~(r.user_id = Val(user_id) /\ r.ticker = Val(ticker))}
                          \cup {[id |-> rowid, user_id |-> Val(user_id), ticker |-> Val(ticker),
                                 added_at |-> now]}],
             rowid |-> rowid]

\* INSERT OR IGNORE INTO watchlists: a NOT NULL or UNIQUE(user_id, ticker)
\* conflict skips the row without an error; neither foreign key is checked.
InsertOrIgnoreWatchlist(store, user_id, ticker) ==
  LET rowid  == store.seq.watchlists + 1
      bumped == [store EXCEPT !.seq.watchlists = rowid]
      isNull == user_id = None \/ ticker = None
      isDup  == \E r \in store.watchlists :
                   r.user_id = Val(user_id) /\ r.ticker = Val(ticker)
  IN IF isNull \/ isDup
       THEN [store |-> bumped, rowid |-> 0]
       ELSE [store |-> [bumped EXCEPT !.watchlists = @ \cup
                          {[id |-> rowid, user_id |-> Val(user_id), ticker |-> Val(ticker),
                            added_at |-> now]}],
             rowid |-> rowid]

\* Database.add_to_watchlist
add_to_watchlist(store, user_id, ticker, fault) ==
  get_connection(store,
    IF ExecuteFails(store, fault) THEN Outcome(store, "OperationalError", None, 1)
    ELSE LET res == InsertOrIgnoreWatchlist(store, user_id, ticker)
         IN AfterExecute(res.store, Some(res.rowid), fault),
    fault)

\* FROM watchlists w JOIN stocks s ON w.ticker = s.ticker WHERE w.user_id = ?:
\* an inner join, one record per (entry, stock) pair with equal tickers.
JoinWatchlist(store, user_id) ==
  { [ticker |-> p[1].ticker, name |-> Some(p[2].name), sector |-> Some(p[2].sector),
     added_at |-> p[1].added_at] :
    p \in {q \in store.watchlists \X store.stocks :
             q[1].user_id = user_id /\ q[1].ticker = q[2].ticker} }

\* Database.get_user_watchlist: the set of results the query may give.
get_user_watchlist(store, user_id, fault) ==
  { get_connection(store,
      IF ExecuteFails(store, fault) THEN Outcome(store, "OperationalError", None, 1)
      ELSE Outcome(store, "none", s, 1),
      fault) :
    s \in OrderByDesc(JoinWatchlist(store, user_id), "added_at") }

\* ------------------------------------------------------------------- stocks

\* Byte order of the ticker strings the model uses (ORDER BY ticker).
Alphabetical == <<"AAPL", "AMZN", "GOOGL", "MSFT", "NVDA", "TSLA", "ZZZZ">>

Rank(t) == CHOOSE i \in DOMAIN Alphabetical : Alphabetical[i] = t

\* ORDER BY ticker (ascending) over the stocks table; tickers are unique, so the
\* order is total: the least ticker first, then the rest.
RECURSIVE OrderByTicker(_)
OrderByTicker(rows) ==
  IF rows = {} THEN <<>>
  ELSE LET first == CHOOSE r \in rows : \A q \in rows : Rank(r.ticker) <= Rank(q.ticker)
       IN <<first>> \o OrderByTicker(rows \ {first})

\* Database.get_all_stocks: the set of results the query may give.
get_all_stocks(store, fault) ==
  { get_connection(store,
      IF ExecuteFails(store, fault) THEN Outcome(store, "OperationalError", None, 1)
      ELSE Outcome(store, "none", s, 1),
      fault) :
    s \in {OrderByTicker(store.stocks)} }

\* ------------------------------------------------------------------- inputs

StockTickers == {"AAPL", "ZZZZ"}

Timestamps == {1, 2, 3}

Bar(ticker, timestamp, open, high, low, close, volume) ==
  [ticker |-> ticker, open |-> open, high |-> high, low |-> low, close |-> close,
   volume |-> volume, timestamp |-> timestamp]

\* dict without one of its keys
Without(d, k) == [x \in (DOMAIN d) \ {k} |-> d[x]]

\* AAPL at every timestamp, twice with different prices at timestamp 1, and a
\* ticker that is not in the stocks table.
ValidBars ==
  {Bar(Some("AAPL"), Some(ts), Some(1), Some(2), Some(1), Some(2), Some(5)) : ts \in Timestamps}
  \cup {Bar(Some("AAPL"), Some(1), Some(2), Some(3), Some(2), Some(3), Some(7)),
        Bar(Some("ZZZZ"), Some(1), Some(1), Some(2), Some(1), Some(2), Some(5))}

InvalidBars ==
  { Bar(None, Some(1), Some(1), Some(2), Some(1), Some(2), Some(5)),
    Bar(Some("AAPL"), Some(2), None, Some(2), Some(1), Some(2), Some(5)),
    Without(Bar(Some("AAPL"), Some(2), Some(1), Some(2), Some(1), Some(2), Some(5)), "volume") }

StockInputs == ValidBars \cup InvalidBars

\* limit=30 is the default of get_stock_data
DefaultLimit == 30

Limits == {-1, 0, 1, 2, DefaultLimit}

\* A query prints nothing, so only its statement or its commit can fail.
QueryFaults == Faults \ {"print"}

Prediction(ticker, trend) ==
  [ticker |-> ticker, predicted_trend |-> trend, confidence |-> Some(85),
   model_version |-> Some("v1.0")]

\* The first carries the keys of a seed_data.json prediction, id and timestamp
\* included; the second has no predicted_change.
PredictionInputs ==
  { Prediction(Some("AAPL"), Some("up")) @@
      [id |-> Some(1), predicted_change |-> Some(25), timestamp |-> Some(99)],
    Prediction(Some("AAPL"), Some("down")),
    Prediction(Some("ZZZZ"), Some("up")),
    Prediction(None, Some("up")),
    Without(Prediction(Some("AAPL"), Some("up")), "model_version") }

Article(ticker, headline, url) ==
  [ticker |-> ticker, headline |-> headline, summary |-> Some("summary"),
   sentiment |-> Some("positive"), source |-> Some("TechNews"), url |-> url]

NewsInputs ==
  { Article(Some("AAPL"), Some("h1"), Some("u1")),
    Article(Some("AAPL"), Some("h1"), Some("u2")),
    Article(Some("AAPL"), Some("h2"), Some("u1")),
    Article(Some("AAPL"), Some("h1"), None),
    [ticker |-> Some("AAPL"), headline |-> Some("h1")],
    Article(None, Some("h1"), Some("u2")),
    Article(Some("AAPL"), None, Some("u2")),
    Without(Article(Some("AAPL"), Some("h1"), Some("u2")), "headline") }

UserIds == {1, 2}

WatchTickers == {"AAPL", "MSFT", "ZZZZ"}

\* User 1 with every ticker, user 2 with one, and the two NULL bindings.
WatchInputs ==
  {<<Some(1), Some(t)>> : t \in WatchTickers}
  \cup {<<Some(2), Some("AAPL")>>, <<None, Some("AAPL")>>, <<Some(1), None>>}

\* ------------------------------------------------------------------ actions

\* What the caller of the last call saw: the operation, the exception that
\* reached it ("none" if the call returned), the returned value, and the number
\* of statements the call executed.
Call(op, out) ==
  [op |-> op, exc |-> out.exc, ret |-> out.ret, execs |-> out.execs]

Init ==
  /\ db = EmptyStore
  /\ now = 0
  /\ last = Call("init", Outcome(EmptyStore, "none", None, 0))
  /\ httpLog = <<>>
  /\ sleepLog = <<>>
  /\ seedFile = None

\* python setup_database.py
SetupDatabase ==
  /\ db' = setup_database(db)
  /\ last' = Call("setup_database", Outcome(db', "none", None, 0))
  /\ UNCHANGED <<now, httpLog, sleepLog, seedFile>>

\* One second passes.
Tick ==
  /\ now < MaxTime
  /\ now' = now + 1
  /\ UNCHANGED <<db, last, httpLog, sleepLog, seedFile>>

Returns(op, out) ==
  /\ db' = out.store
  /\ last' = Call(op, out)
  /\ UNCHANGED <<now, httpLog, sleepLog, seedFile>>

InsertStockData ==
  \E data \in StockInputs, fault \in Faults :
    /\ db.seq.stock_data < MaxId
    /\ Returns("insert_stock_data", insert_stock_data(db, data, fault))

GetStockData ==
  \E ticker \in StockTickers, limit \in Limits, fault \in QueryFaults :
    \E out \in get_stock_data(db, ticker, limit, fault) :
      Returns("get_stock_data", out)

InsertPrediction ==
  \E prediction \in PredictionInputs, fault \in Faults :
    /\ db.seq.predictions < MaxId
    /\ Returns("insert_prediction", insert_prediction(db, prediction, fault))

GetLatestPrediction ==
  \E ticker \in StockTickers, fault \in QueryFaults :
    \E out \in get_latest_prediction(db, ticker, fault) :
      Returns("get_latest_prediction", out)

InsertNewsArticle ==
  \E article \in NewsInputs, fault \in Faults :
    /\ db.seq.news_articles < MaxId
    /\ Returns("insert_news_article", insert_news_article(db, article, fault))

GetRecentNews ==
  \E ticker \in StockTickers, limit \in Limits, fault \in QueryFaults :
    \E out \in get_recent_news(db, ticker, limit, fault) :
      Returns("get_recent_news", out)

AddToWatchlist ==
  \E w \in WatchInputs, fault \in Faults :
    /\ db.seq.watchlists < MaxId
    /\ Returns("add_to_watchlist", add_to_watchlist(db, w[1], w[2], fault))

GetUserWatchlist ==
  \E user_id \in UserIds, fault \in QueryFaults :
    \E out \in get_user_watchlist(db, user_id, fault) :
      Returns("get_user_watchlist", out)

GetAllStocks ==
  \E fault \in QueryFaults :
    \E out \in get_all_stocks(db, fault) :
      Returns("get_all_stocks", out)


\* ------------------------------------------------------ quote provider client

\* Cap of the number of candles in one provider response.
MaxBars == 2

\* days=30 is the default of get_stock_candles
DefaultDays == 30

\* params of the GET to /stock/candle (the token is left out)
CandleRequest(ticker, days, resolution) ==
  [url |-> "/stock/candle", symbol |-> ticker, resolution |-> resolution,
   from |-> now - (days * 24 * 60 * 60), to |-> now]

CandleArrays == {"o", "h", "l", "c", "v"}

\* The order in which one loop iteration reads the arrays.
ArrayOrder == <<"o", "h", "l", "c", "v">>

\* Reading data[k][i]: KeyError when the key is missing, IndexError when the
\* array has no element i.
ReadFails(data, k, i) ==
  IF ~HasKey(data, k) THEN "KeyError"
  ELSE IF Len(data[k]) < i THEN "IndexError"
  ELSE "none"

\* The first read of the loop over range(len(data['t'])) that raises, or "none".
LoopFails(data) ==
  LET fails == {f \in (1..Len(data.t)) \X (1..Len(ArrayOrder)) :
                  ReadFails(data, ArrayOrder[f[2]], f[1]) # "none"}
  IN IF fails = {} THEN "none"
     ELSE LET first == CHOOSE f \in fails : \A g \in fails :
                         f[1] < g[1] \/ (f[1] = g[1] /\ f[2] <= g[2])
          IN ReadFails(data, ArrayOrder[first[2]], first[1])

\* The try block of get_stock_candles on a provider response: the exception
\* that leaves it ("none" if it returns) and the value it returns.
\*   requests.get raises Timeout or ConnectionError; raise_for_status raises
\*   HTTPError; response.json() raises JSONDecodeError; data.get on a JSON
\*   document that is not an object raises AttributeError; data['t'] raises
\*   KeyError when the key is missing; the loop raises as LoopFails says.
CandleTry(ticker, resp) ==
  IF resp.kind = "timeout" THEN [exc |-> "Timeout", ret |-> <<>>]
  ELSE IF resp.kind = "connection_error" THEN [exc |-> "ConnectionError", ret |-> <<>>]
  ELSE IF resp.kind = "http_error" THEN [exc |-> "HTTPError", ret |-> <<>>]
  ELSE IF resp.kind = "bad_json" THEN [exc |-> "JSONDecodeError", ret |-> <<>>]
  ELSE IF resp.kind = "json_list" THEN [exc |-> "AttributeError", ret |-> <<>>]
  ELSE LET data == resp.data
       IN IF HasKey(data, "s") /\ data.s = "no_data" THEN [exc |-> "none", ret |-> <<>>]
          ELSE IF ~HasKey(data, "s") \/ data.s # "ok" THEN [exc |-> "none", ret |-> <<>>]
          ELSE IF ~HasKey(data, "t") THEN [exc |-> "KeyError", ret |-> <<>>]
          ELSE IF LoopFails(data) # "none" THEN [exc |-> LoopFails(data), ret |-> <<>>]
          ELSE [exc |-> "none",
                ret |-> [i \in 1..Len(data.t) |->
                          [ticker |-> ticker, open |-> data.o[i], high |-> data.h[i],
                           low |-> data.l[i], close |-> data.c[i], volume |-> data.v[i],
                           timestamp |-> data.t[i]]]]

\* The exceptions of the requests library (Timeout is one of them).
RequestExceptions == {"Timeout", "ConnectionError", "HTTPError", "JSONDecodeError"}

\* The handlers without the final `except Exception`.
CandleExcept_NoCatchAll(try) ==
  IF try.exc = "none" THEN try
  ELSE IF try.exc \in RequestExceptions THEN [exc |-> "none", ret |-> <<>>]
  ELSE try

\* The except clauses of get_stock_candles: Timeout, RequestException and
\* Exception, each returning the empty list.
CandleExcept(try) ==
  IF try.exc = "none" THEN try
  ELSE IF try.exc = "Timeout" THEN [exc |-> "none", ret |-> <<>>]
  ELSE IF try.exc \in RequestExceptions THEN [exc |-> "none", ret |-> <<>>]
  ELSE [exc |-> "none", ret |-> <<>>]

\* FinnhubStockData.get_stock_candles against a provider that answers resp:
\* what the caller sees and the requests that went out.
get_stock_candles(ticker, days, resolution, resp) ==
  LET out == CandleExcept(CandleTry(ticker, resp))
  IN [exc |-> out.exc, ret |-> out.ret, requests |-> <<CandleRequest(ticker, days, resolution)>>]

\* Provider answers: the failures of the transport and of the decoding, and the
\* JSON objects made of a status, a time array of up to MaxBars candles (in
\* either order) and five value arrays, one of them possibly short or missing.
CandleTimes ==
  UNION {{[i \in 1..n |-> 10 * i], [i \in 1..n |-> 10 * (n + 1 - i)]} : n \in 0..MaxBars}

FullCandles(s, t) ==
  [s |-> s, t |-> t,
   o |-> [i \in 1..MaxBars |-> 10 + i], h |-> [i \in 1..MaxBars |-> 20 + i],
   l |-> [i \in 1..MaxBars |-> 30 + i], c |-> [i \in 1..MaxBars |-> 40 + i],
   v |-> [i \in 1..MaxBars |-> 50 + i]]

CandleBodies ==
  LET full == {FullCandles(s, t) : s \in {"ok", "no_data", "error"}, t \in CandleTimes}
  IN full
     \cup {[d EXCEPT ![k] = SubSeq(@, 1, MaxBars - 1)] : d \in full, k \in CandleArrays}
     \cup {Without(d, k) : d \in full, k \in CandleArrays \cup {"s", "t"}}

Responses ==
  {[kind |-> k] : k \in {"timeout", "connection_error", "http_error", "bad_json", "json_list"}}
  \cup {[kind |-> "json", data |-> d] : d \in CandleBodies}

GetStockCandles ==
  \E ticker \in StockTickers, resp \in Responses :
    LET out == get_stock_candles(ticker, DefaultDays, "D", resp)
    IN /\ Len(httpLog) < MaxRequests
       /\ httpLog' = httpLog \o out.requests
       /\ last' = [op |-> "get_stock_candles", exc |-> out.exc, ret |-> out.ret, execs |-> 0]
       /\ UNCHANGED <<db, now, sleepLog, seedFile>>

\* Cap of the length of the list given to get_multiple_tickers.
MaxTickers == 2

\* self.rate_limit_delay = 1.1 seconds, in tenths of a second
rate_limit_delay == 11

\* The sleep after every fetch, the last one included.
SleepAfterEach(i, n) == TRUE

\* `if i < len(tickers)`: whether the loop sleeps after fetch number i of n.
SleepBetween(i, n) == i < n

\* The request of CandleRequest when it is built `elapsed` tenths of a second
\* later: int(time.time()) has advanced by the whole seconds in them.
CandleRequestAt(ticker, days, resolution, elapsed) ==
  [CandleRequest(ticker, days, resolution) EXCEPT !.from = @ + (elapsed \div 10),
                                                  !.to   = @ + (elapsed \div 10)]

\* The loop of get_multiple_tickers from iteration i on. acc carries results
\* (the dict built so far), requests (the GETs sent so far), sleeps (each
\* time.sleep so far: the number of GETs that preceded it and its length) and
\* elapsed (tenths of a second slept so far); resps[i] is the provider's answer
\* to fetch number i.
RECURSIVE MultipleTickersLoop(_, _, _, _, _, _)
MultipleTickersLoop(tickers, days, resolution, resps, i, acc) ==
  IF i > Len(tickers) THEN acc
  ELSE LET ticker  == tickers[i]
           fetch   == get_stock_candles(ticker, days, resolution, resps[i])
           request == CandleRequestAt(ticker, days, resolution, acc.elapsed)
           fetched == [acc EXCEPT !.results  = (ticker :> fetch.ret) @@ @,
                                  !.requests = Append(@, request),
                                  !.exc      = fetch.exc]
           slept   == [fetched EXCEPT !.sleeps  = Append(@, [after |-> i, secs |-> rate_limit_delay]),
                                      !.elapsed = @ + rate_limit_delay]
       IN IF fetch.exc # "none" THEN fetched
          ELSE IF SleepBetween(i, Len(tickers))
            THEN MultipleTickersLoop(tickers, days, resolution, resps, i + 1, slept)
            ELSE MultipleTickersLoop(tickers, days, resolution, resps, i + 1, fetched)

\* FinnhubStockData.get_multiple_tickers: the returned dict, the exception that
\* reached the caller ("none" if it returned), the GETs and the sleeps.
get_multiple_tickers(tickers, days, resolution, resps) ==
  LET out == MultipleTickersLoop(tickers, days, resolution, resps, 1,
               [results |-> <<>>, requests |-> <<>>, sleeps |-> <<>>, elapsed |-> 0,
                exc |-> "none"])
  IN [exc |-> out.exc, ret |-> IF out.exc = "none" THEN out.results ELSE <<>>,
      requests |-> out.requests, sleeps |-> out.sleeps, elapsed |-> out.elapsed]

\* The lists of up to MaxTickers tickers, repetitions included.
TickerLists == UNION {[1..n -> StockTickers] : n \in 0..MaxTickers}

\* Provider answers to the fetches of one list: a timeout, a JSON document that
\* is not an object, and candles in full.
BatchResponses ==
  { [kind |-> "timeout"], [kind |-> "json_list"],
    [kind |-> "json", data |-> FullCandles("ok", <<10>>)] }

GetMultipleTickers ==
  \E tickers \in TickerLists :
    \E resps \in [1..Len(tickers) -> BatchResponses] :
      LET out == get_multiple_tickers(tickers, DefaultDays, "D", resps)
      IN /\ Len(httpLog) + Len(tickers) <= MaxRequests
         /\ httpLog' = httpLog \o out.requests
         /\ sleepLog' = sleepLog \o
              [j \in 1..Len(out.sleeps) |->
                 [out.sleeps[j] EXCEPT !.after = @ + Len(httpLog)]]
         /\ now' = now + (out.elapsed \div 10)
         /\ last' = [op |-> "get_multiple_tickers", exc |-> out.exc, ret |-> out.ret,
                     execs |-> 0]
         /\ UNCHANGED <<db, seedFile>>

\* ------------------------------------------------- fixture generator, loader

\* Cap of the number of complete loads of the fixture in one run.
MaxLoads == 1

\* The tickers of generate_sample_predictions, in its order.
SeedTickers == <<"AAPL", "MSFT", "GOOGL", "TSLA", "NVDA">>

Trends == <<"up", "down", "neutral">>

\* Outcomes of the five draws of random.choice: three of the possible ones,
\* each trend being drawn first in one of them.
RandomDraws ==
  {[i \in 1..Len(SeedTickers) |-> Trends[((i + k) % Len(Trends)) + 1]] : k \in 0..2}

\* generate_sample_predictions; confidence and predicted_change stand for the
\* uniform draws, timestamp for datetime.now().
generate_sample_predictions(draws) ==
  [i \in 1..Len(SeedTickers) |->
     [id |-> Some(i), ticker |-> Some(SeedTickers[i]), predicted_trend |-> Some(draws[i]),
      confidence |-> Some(85), predicted_change |-> Some(25), timestamp |-> Some(now),
      model_version |-> Some("v1.0")]]

generate_sample_watchlists ==
  << [user_id |-> 1, stocks |-> <<"AAPL", "MSFT", "GOOGL">>],
     [user_id |-> 2, stocks |-> <<"TSLA", "NVDA">>],
     [user_id |-> 3, stocks |-> <<"AAPL", "TSLA", "AMZN", "NVDA">>] >>

\* generate_all_seed_data: the document written to seed_data.json (users, news
\* and metadata, which the loader only counts, are left out).
generate_all_seed_data(draws) ==
  [stocks |-> SampleStocks, predictions |-> generate_sample_predictions(draws),
   watchlists |-> generate_sample_watchlists]

\* The inserts the two loops of load_seed_data.py make, in file order.
RECURSIVE WatchlistCalls_From(_, _)
WatchlistCalls_From(watchlists, i) ==
  IF i > Len(watchlists) THEN <<>>
  ELSE [j \in 1..Len(watchlists[i].stocks) |->
          [op |-> "add_to_watchlist", user_id |-> watchlists[i].user_id,
           ticker |-> watchlists[i].stocks[j]]]
       \o WatchlistCalls_From(watchlists, i + 1)

PredictionCalls(predictions) ==
  [i \in 1..Len(predictions) |-> [op |-> "insert_prediction", pred |-> predictions[i]]]

SeedCalls(file) == PredictionCalls(file.predictions) \o WatchlistCalls_From(file.watchlists, 1)

\* The call inside one `try:` of the loader.
SeedInsert(store, call, fault) ==
  IF call.op = "insert_prediction" THEN insert_prediction(store, call.pred, fault)
  ELSE add_to_watchlist(store, Some(call.user_id), Some(call.ticker), fault)

\* `except sqlite3.IntegrityError` in place of `except Exception`: what is not
\* an IntegrityError leaves the loop.
ExceptIntegrityError(exc) == IF exc = "IntegrityError" THEN "none" ELSE exc

\* `except Exception as e: print(Warning)`: every exception of the insert is
\* caught; the result is the exception that leaves the try statement.
ExceptException(exc) == "none"

\* The two insert loops from call number i on: the store, the outcome of every
\* attempted insert so far ("none" or its exception) and the exception that
\* ended the script ("none" while it runs).
RECURSIVE LoadLoop(_, _, _, _, _)
LoadLoop(store, calls, faults, i, attempts) ==
  IF i > Len(calls) THEN [store |-> store, attempts |-> attempts, exc |-> "none"]
  ELSE LET out  == SeedInsert(store, calls[i], faults[i])
           seen == Append(attempts, out.exc)
       IN IF ExceptException(out.exc) # "none"
            THEN [store |-> out.store, attempts |-> seen, exc |-> ExceptException(out.exc)]
            ELSE LoadLoop(out.store, calls, faults, i + 1, seen)

\* The verification step: get_all_stocks, get_latest_prediction of three
\* tickers, get_user_watchlist(1); none of them is inside a try, so the first
\* exception (here that of a store without tables) ends the script.
Verification(store) ==
  IF ExecuteFails(store, "none") THEN "OperationalError" ELSE "none"

\* load_seed_data.py on the fixture `file` (None when seed_data.json is
\* missing): the store it leaves, the exception that ended it ("none" if it ran
\* to the end), the outcome of every attempted insert, and whether the
\* verification step was reached.
load_seed_data(store, file, faults) ==
  IF file = None
    THEN [store |-> store, exc |-> "SystemExit", attempts |-> <<>>, verification |-> FALSE]
    ELSE LET loaded == LoadLoop(store, SeedCalls(Val(file)), faults, 1, <<>>)
         IN IF loaded.exc # "none"
              THEN [store |-> loaded.store, exc |-> loaded.exc, attempts |-> loaded.attempts,
                    verification |-> FALSE]
              ELSE [store |-> loaded.store, exc |-> Verification(loaded.store),
                    attempts |-> loaded.attempts, verification |-> TRUE]

\* Environment failures over one run of the loader: none, or one insert fails.
LoadFaults(n) ==
  {[i \in 1..n |-> "none"]}
  \cup {[i \in 1..n |-> IF i = k THEN f ELSE "none"] : k \in 1..n, f \in Faults \ {"none"}}

\* python seed_data.py
GenerateSeedData ==
  \E draws \in RandomDraws :
    /\ seedFile' = Some(generate_all_seed_data(draws))
    /\ last' = [op |-> "seed_data", exc |-> "none", ret |-> None, execs |-> 0]
    /\ UNCHANGED <<db, now, httpLog, sleepLog>>

\* python load_seed_data.py; what the caller sees is, for every attempted
\* insert in order, whether it printed a warning, and whether the verification
\* step was reached.
LoadSeedData ==
  \E faults \in LoadFaults(IF seedFile = None THEN 0 ELSE Len(SeedCalls(Val(seedFile)))) :
    LET out == load_seed_data(db, seedFile, faults)
    IN /\ db' = out.store
       /\ last' = [op |-> "load_seed_data", exc |-> out.exc,
                   ret |-> [warnings |-> [i \in DOMAIN out.attempts |-> out.attempts[i] # "none"],
                           verification |-> out.verification],
                   execs |-> Len(out.attempts)]
       /\ UNCHANGED <<now, httpLog, sleepLog, seedFile>>

\* --------------------------------------------------------- specifications

TotalSeq(store) ==
  store.seq.stock_data + store.seq.predictions + store.seq.news_articles
    + store.seq.watchlists

\* The whole Data Access Layer; a call goes ahead as long as it leaves the sum
\* of the counters within MaxOps (a call that is rolled back always does).
Next ==
  \/ SetupDatabase
  \/ InsertStockData /\ TotalSeq(db') <= MaxOps
  \/ InsertPrediction /\ TotalSeq(db') <= MaxOps
  \/ InsertNewsArticle /\ TotalSeq(db') <= MaxOps
  \/ AddToWatchlist /\ TotalSeq(db') <= MaxOps
  \/ GetStockData
  \/ GetLatestPrediction
  \/ GetRecentNews
  \/ GetUserWatchlist
  \/ GetAllStocks

Spec == Init /\ [][Next]_vars

\* The two inserts that ingest provider data, stock_data and news_articles.
NextIngest ==
  \/ SetupDatabase
  \/ InsertStockData /\ db'.seq.stock_data + db'.seq.news_articles <= MaxIngest
  \/ InsertNewsArticle /\ db'.seq.stock_data + db'.seq.news_articles <= MaxIngest

SpecIngest == Init /\ [][NextIngest]_vars

\* stock_data alone.
NextStock == SetupDatabase \/ InsertStockData \/ GetStockData

SpecStock == Init /\ [][NextStock]_vars

\* predictions alone, with the clock.
NextPred == SetupDatabase \/ Tick \/ InsertPrediction \/ GetLatestPrediction

SpecPred == Init /\ [][NextPred]_vars

\* news_articles alone.
NextNews == SetupDatabase \/ InsertNewsArticle \/ GetRecentNews

SpecNews == Init /\ [][NextNews]_vars

\* watchlists alone, with the clock.
NextWatch == SetupDatabase \/ Tick \/ AddToWatchlist \/ GetUserWatchlist

SpecWatch == Init /\ [][NextWatch]_vars

\* The quote provider client alone, with the clock.
NextClient == Tick \/ GetStockCandles

SpecClient == Init /\ [][NextClient]_vars

\* Fetching lists of tickers, with the clock.
NextBatch == Tick \/ GetMultipleTickers

SpecBatch == Init /\ [][NextBatch]_vars

\* The three scripts and the stock listing; a load goes ahead as long as the
\* predictions counter leaves room for a complete load within MaxLoads of them.
NextSeed ==
  \/ SetupDatabase
  \/ GenerateSeedData
  \/ db.seq.predictions + Len(SeedTickers) <= MaxLoads * Len(SeedTickers) /\ LoadSeedData
  \/ GetAllStocks

SpecSeed == Init /\ [][NextSeed]_vars

\* ------------------------------------------------------------------- claims

\* A record that binds every column of stock_data, with a key.
HasKeyOfBar(data) ==
  /\ StockDataColumns \subseteq DOMAIN data
  /\ data.ticker # None
  /\ data.timestamp # None

StoredBars(store, data) ==
  {r \in store.stock_data : r.ticker = Val(data.ticker) /\ r.timestamp = Val(data.timestamp)}

\* C1: the store holds at most one stock_data row per (ticker, timestamp), and
\* insert_stock_data of a record whose (ticker, timestamp) is already stored
\* raises nothing and leaves the stock_data rows as they were (same rows, same
\* open/high/low/close/volume), whatever values the record carries.
C1_OneBarPerKey ==
  /\ \A r1, r2 \in db.stock_data :
       (r1.ticker = r2.ticker /\ r1.timestamp = r2.timestamp) => r1 = r2
  /\ \A data \in StockInputs :
       (HasKeyOfBar(data) /\ StoredBars(db, data) # {}) =>
         LET out == insert_stock_data(db, data, "none")
         IN out.exc = "none" /\ out.store.stock_data = db.stock_data

\* C1 witness: an insert has just been ignored while a bar is stored for which
\* the inputs hold a record with the same key and another open price.
C1_Witness ==
  /\ last.op = "insert_stock_data"
  /\ last.exc = "none"
  /\ last.ret = Some(0)
  /\ \E data \in ValidBars : \E r \in StoredBars(db, data) : r.open # Val(data.open)

PredictionsOf(store, ticker) == {r \in store.predictions : r.ticker = ticker}

\* C2: get_latest_prediction(ticker) returns none exactly when no prediction is
\* stored for the ticker, and otherwise a stored prediction of that ticker whose
\* timestamp is the greatest among the ticker's predictions.
C2_LatestPrediction ==
  db.schema =>
    \A ticker \in StockTickers :
      \A out \in get_latest_prediction(db, ticker, "none") :
        /\ out.exc = "none"
        /\ (out.ret = None) <=> (PredictionsOf(db, ticker) = {})
        /\ out.ret # None =>
             /\ Val(out.ret) \in PredictionsOf(db, ticker)
             /\ \A r \in PredictionsOf(db, ticker) : r.timestamp <= Val(out.ret).timestamp

\* C2 witness: the call returned a prediction while an older one of the same
\* ticker is stored.
C2_Witness ==
  /\ last.op = "get_latest_prediction"
  /\ last.exc = "none"
  /\ last.ret # None
  /\ \E r \in db.predictions :
       r.ticker = Val(last.ret).ticker /\ r.timestamp < Val(last.ret).timestamp

BarsOf(store, ticker) == {r \in store.stock_data : r.ticker = ticker}

Min(a, b) == IF a < b THEN a ELSE b

\* What C7 asks of one result of get_stock_data(ticker, limit=n).
MostRecentBars(store, ticker, n, rows) ==
  /\ Len(rows) <= n
  /\ Len(rows) = Min(n, Cardinality(BarsOf(store, ticker)))
  /\ \A i \in DOMAIN rows : rows[i] \in BarsOf(store, ticker)
  /\ \A i, j \in DOMAIN rows : i < j => rows[i].timestamp > rows[j].timestamp
  /\ \A r \in BarsOf(store, ticker) :
       (\A i \in DOMAIN rows : rows[i] # r) =>
         \A i \in DOMAIN rows : r.timestamp < rows[i].timestamp

\* C7 as stated: for every integer limit n, get_stock_data(ticker, limit=n)
\* returns at most n rows, all of the ticker, in strictly descending timestamp
\* order, and they are the n most recent rows (all rows when fewer are stored).
C7_AnyLimit ==
  db.schema =>
    \A ticker \in StockTickers, n \in Limits :
      \A out \in get_stock_data(db, ticker, n, "none") :
        out.exc = "none" /\ MostRecentBars(db, ticker, n, out.ret)

\* C7 amended: the same for every limit n >= 0.
C7_NonNegativeLimit ==
  db.schema =>
    \A ticker \in StockTickers, n \in {m \in Limits : m >= 0} :
      \A out \in get_stock_data(db, ticker, n, "none") :
        out.exc = "none" /\ MostRecentBars(db, ticker, n, out.ret)

\* C7 witness: a call returned two rows of a ticker that has three.
C7_Witness ==
  /\ last.op = "get_stock_data"
  /\ last.exc = "none"
  /\ Len(last.ret) = 2
  /\ Cardinality(BarsOf(db, last.ret[1].ticker)) = 3

\* Every call of the Data Access Layer the inputs allow, on a store: the
\* operation, the table it writes ("" for a query), its arguments, the
\* environment failure it meets and its outcome.
DalCall(op, table, args, fault, out) ==
  [op |-> op, table |-> table, args |-> args, fault |-> fault, out |-> out]

StockDataCalls(store, faults) ==
  {DalCall("insert_stock_data", "stock_data", d, f, insert_stock_data(store, d, f)) :
     d \in StockInputs, f \in faults}

NewsCalls(store, faults) ==
  {DalCall("insert_news_article", "news_articles", d, f, insert_news_article(store, d, f)) :
     d \in NewsInputs, f \in faults}

WatchlistCalls(store, faults) ==
  {DalCall("add_to_watchlist", "watchlists", w, f, add_to_watchlist(store, w[1], w[2], f)) :
     w \in WatchInputs, f \in faults}

InsertCalls(store, faults) ==
  StockDataCalls(store, faults) \cup NewsCalls(store, faults) \cup WatchlistCalls(store, faults)
  \cup {DalCall("insert_prediction", "predictions", d, f, insert_prediction(store, d, f)) :
     d \in PredictionInputs, f \in faults}

QueryCalls(store) ==
  UNION {{DalCall("get_stock_data", "", <<t, n>>, f, out) : out \in get_stock_data(store, t, n, f)} :
           t \in StockTickers, n \in Limits, f \in QueryFaults}
  \cup UNION {{DalCall("get_latest_prediction", "", <<t>>, f, out) :
                 out \in get_latest_prediction(store, t, f)} :
           t \in StockTickers, f \in QueryFaults}
  \cup UNION {{DalCall("get_recent_news", "", <<t, n>>, f, out) :
                 out \in get_recent_news(store, t, n, f)} :
           t \in StockTickers, n \in Limits, f \in QueryFaults}
  \cup UNION {{DalCall("get_user_watchlist", "", <<u>>, f, out) :
                 out \in get_user_watchlist(store, u, f)} :
           u \in UserIds, f \in QueryFaults}
  \cup UNION {{DalCall("get_all_stocks", "", <<>>, f, out) : out \in get_all_stocks(store, f)} :
           f \in QueryFaults}

\* C3: for every Data Access Layer operation, a failure inside the connection
\* scope reaches the caller as an exception, leaves the store as it was before
\* the call, and the statement is not run again; a call that meets no failure
\* returns with its write committed (the table's AUTOINCREMENT counter has
\* advanced by one and a returned row id is the id of a new stored row), and a
\* query leaves the store alone.
C3_CommitOrRollback ==
  /\ \A c \in InsertCalls(db, Faults) :
       /\ (c.fault # "none" \/ ~db.schema) => c.out.exc # "none"
       /\ c.out.exc # "none" => c.out.store = db
       /\ c.out.execs <= 1
       /\ c.out.exc = "none" =>
            /\ c.out.store.seq[c.table] = db.seq[c.table] + 1
            /\ c.out.ret # Some(0) =>
                 \E r \in c.out.store[c.table] \ db[c.table] : r.id = Val(c.out.ret)
  /\ \A c \in QueryCalls(db) :
       /\ (c.fault # "none" \/ ~db.schema) => c.out.exc # "none"
       /\ c.out.store = db
       /\ c.out.execs <= 1

\* C3 witness: a call failed after its statement had run, on a store that
\* already holds a row, and raised.
C3_Witness ==
  /\ last.op = "insert_stock_data"
  /\ last.exc = "OSError"
  /\ last.execs = 1
  /\ db.stock_data # {}

\* A NOT NULL column of the statement is bound to None (every key the code
\* reads is present, so the statement is reached).
NotNullViolated(c) ==
  \/ /\ c.op = "insert_stock_data"
     /\ StockDataColumns \subseteq DOMAIN c.args
     /\ \E k \in StockDataColumns : c.args[k] = None
  \/ /\ c.op = "insert_news_article"
     /\ {"ticker", "headline"} \subseteq DOMAIN c.args
     /\ (c.args.ticker = None \/ c.args.headline = None)
  \/ /\ c.op = "add_to_watchlist"
     /\ (c.args[1] = None \/ c.args[2] = None)

\* C4 as stated: insert_stock_data, insert_news_article and add_to_watchlist do
\* not swallow a NOT NULL violation: the call raises and the store is as before.
C4_NotNullSurfaces ==
  db.schema =>
    \A c \in StockDataCalls(db, {"none"}) \cup NewsCalls(db, {"none"})
               \cup WatchlistCalls(db, {"none"}) :
      NotNullViolated(c) =>
        c.out.exc # "none" /\ c.out.store = db

\* The row a call has added to its table, as a set (empty when none was added).
AddedRows(store, c) == c.out.store[c.table] \ store[c.table]

\* An insert of a record that binds every NOT NULL column and has a key.
WellFormedInsert(c) ==
  /\ c.fault = "none"
  /\ \/ c.op = "insert_stock_data" /\ c.args \in ValidBars
     \/ /\ c.op = "insert_news_article"
        /\ {"ticker", "headline"} \subseteq DOMAIN c.args
        /\ c.args.ticker # None /\ c.args.headline # None
        /\ Get(c.args, "url") # None

\* The natural key of the record is already stored.
KeyStored(store, c) ==
  IF c.op = "insert_stock_data" THEN StoredBars(store, c.args) # {}
  ELSE \E r \in store.news_articles : r.url = c.args.url

\* What C6 asks of insert_stock_data and insert_news_article, with `ignored`
\* the value returned when the record's natural key is already stored.
ReturnsIdOr(ignored) ==
  db.schema =>
    \A c \in StockDataCalls(db, {"none"}) \cup NewsCalls(db, {"none"}) :
      WellFormedInsert(c) =>
        /\ c.out.exc = "none"
        /\ IF KeyStored(db, c)
             THEN AddedRows(db, c) = {} /\ c.out.ret = ignored
             ELSE \E r \in AddedRows(db, c) : AddedRows(db, c) = {r} /\ c.out.ret = Some(r.id)

\* C6 as stated: the id of the new row when the record is stored, none when it
\* is ignored as a duplicate (ticker, timestamp) or a duplicate url.
C6_ReturnsIdOrNone == ReturnsIdOr(None)

\* C6 amended: the id of the new row when the record is stored, 0 when it is
\* ignored as a duplicate (ticker, timestamp) or a duplicate url.
C6_ReturnsIdOrZero == ReturnsIdOr(Some(0))

\* C6 witness: an insert_stock_data has just returned 0 while a bar is stored
\* under a key of the inputs.
C6_Witness ==
  /\ last.op = "insert_stock_data"
  /\ last.exc = "none"
  /\ last.ret = Some(0)
  /\ db.stock_data # {}
  /\ db.seq.stock_data = 2

EntriesOf(store, user_id) == {w \in store.watchlists : w.user_id = user_id}

\* C5 as stated: get_user_watchlist(user_id) returns one record for every
\* watchlist entry of the user, also for an entry whose ticker has no row in
\* stocks, none of another user, with the added time never increasing.
C5_EveryEntryReturned ==
  db.schema =>
    \A user_id \in UserIds :
      \A out \in get_user_watchlist(db, user_id, "none") :
        /\ out.exc = "none"
        /\ Len(out.ret) = Cardinality(EntriesOf(db, user_id))
        /\ \A w \in EntriesOf(db, user_id) :
             \E i \in DOMAIN out.ret :
               out.ret[i].ticker = w.ticker /\ out.ret[i].added_at = w.added_at
        /\ \A i \in DOMAIN out.ret :
             \E w \in EntriesOf(db, user_id) :
               out.ret[i].ticker = w.ticker /\ out.ret[i].added_at = w.added_at
        /\ \A i, j \in DOMAIN out.ret : i < j => out.ret[i].added_at >= out.ret[j].added_at

NewsKeyed(article) ==
  /\ {"ticker", "headline"} \subseteq DOMAIN article
  /\ article.ticker # None
  /\ article.headline # None
  /\ Get(article, "url") # None

\* C8: no two stored articles share a url; insert_news_article of an article
\* whose url is stored leaves news_articles as it was, and of an article whose
\* url is not stored adds exactly one row, with that url, ticker and headline,
\* also when a stored row has the same ticker and headline.
C8_OneArticlePerUrl ==
  /\ \A r1, r2 \in db.news_articles : (r1.url # None /\ r1.url = r2.url) => r1 = r2
  /\ db.schema =>
       \A article \in {a \in NewsInputs : NewsKeyed(a)} :
         LET out == insert_news_article(db, article, "none")
             new == out.store.news_articles \ db.news_articles
         IN /\ out.exc = "none"
            /\ db.news_articles \subseteq out.store.news_articles
            /\ IF \E r \in db.news_articles : r.url = article.url
                 THEN new = {}
                 ELSE \E r \in new :
                        /\ new = {r}
                        /\ r.url = article.url
                        /\ r.ticker = Val(article.ticker)
                        /\ r.headline = Val(article.headline)

\* C8 witness: the last insert stored an article whose ticker and headline are
\* those of another stored article with another url.
C8_Witness ==
  /\ last.op = "insert_news_article"
  /\ last.exc = "none"
  /\ \E r1, r2 \in db.news_articles :
       /\ Some(r1.id) = last.ret
       /\ r2.id < r1.id
       /\ r1.ticker = r2.ticker /\ r1.headline = r2.headline
       /\ r1.url # None /\ r2.url # None /\ r1.url # r2.url

\* C9: the store holds at most one watchlist row per (user_id, ticker), and
\* add_to_watchlist of a stored pair raises nothing and leaves watchlists as it
\* was, added_at included.
C9_OneEntryPerPair ==
  /\ \A r1, r2 \in db.watchlists :
       (r1.user_id = r2.user_id /\ r1.ticker = r2.ticker) => r1 = r2
  /\ \A w \in WatchInputs :
       (w[1] # None /\ w[2] # None
          /\ \E r \in db.watchlists : r.user_id = Val(w[1]) /\ r.ticker = Val(w[2])) =>
         LET out == add_to_watchlist(db, w[1], w[2], "none")
         IN out.exc = "none" /\ out.store.watchlists = db.watchlists

\* C9 witness: an add has just been ignored, later than the added_at of a
\* stored entry, while every pair of the inputs that could be stored by now is.
C9_Witness ==
  /\ last.op = "add_to_watchlist"
  /\ last.exc = "none"
  /\ last.ret = Some(0)
  /\ \E r \in db.watchlists : r.added_at < now
  /\ db.seq.watchlists = Cardinality(db.watchlists) + 1

\* A JSON object the loop can transpose: it has the time array and each value
\* array has an element for every element of the time array.
Transposable(data) ==
  /\ HasKey(data, "t")
  /\ \A k \in CandleArrays : Len(data.t) > 0 => HasKey(data, k) /\ Len(data[k]) >= Len(data.t)

IsOk(resp) == resp.kind = "json" /\ HasKey(resp.data, "s") /\ resp.data.s = "ok"

\* C10: get_stock_candles never raises and sends exactly one GET, for the given
\* symbol; it returns the empty list for a transport or decoding failure, for a
\* status other than "ok" and for an "ok" answer that cannot be transposed, and
\* otherwise one record per element of t, in t's order, record i holding the
\* ticker and the i-th elements of o, h, l, c, v and t.
C10_CandlesOrEmpty ==
  \A ticker \in StockTickers, resp \in Responses :
    LET out == get_stock_candles(ticker, DefaultDays, "D", resp)
    IN /\ out.exc = "none"
       /\ Len(out.requests) = 1
       /\ out.requests[1].symbol = ticker
       /\ IF IsOk(resp) /\ Transposable(resp.data)
            THEN /\ Len(out.ret) = Len(resp.data.t)
                 /\ \A i \in DOMAIN out.ret :
                      out.ret[i] = [ticker |-> ticker, open |-> resp.data.o[i],
                                    high |-> resp.data.h[i], low |-> resp.data.l[i],
                                    close |-> resp.data.c[i], volume |-> resp.data.v[i],
                                    timestamp |-> resp.data.t[i]]
            ELSE out.ret = <<>>

\* C10 witness: two calls have been made, two requests have gone out, and the
\* last call returned the candles in an order that is not ascending.
C10_Witness ==
  /\ last.op = "get_stock_candles"
  /\ last.exc = "none"
  /\ Len(httpLog) = 2
  /\ Len(last.ret) = 2
  /\ last.ret[1].timestamp > last.ret[2].timestamp

\* C11: get_multiple_tickers sends one GET per element of the list, in list
\* order; it sleeps rate_limit_delay once after every fetch but the last, so
\* len(tickers) - 1 times and never for an empty or one-element list; a fetch
\* that fails does not stop the loop, no exception reaches the caller, and the
\* returned dict has a list, possibly empty, for every requested ticker.
C11_OneFetchPerTicker ==
  \A tickers \in TickerLists :
    \A resps \in [1..Len(tickers) -> BatchResponses] :
      LET out == get_multiple_tickers(tickers, DefaultDays, "D", resps)
          n   == Len(tickers)
      IN /\ out.exc = "none"
         /\ Len(out.requests) = n
         /\ \A i \in 1..n : out.requests[i].symbol = tickers[i]
         /\ Len(out.sleeps) = (IF n = 0 THEN 0 ELSE n - 1)
         /\ \A j \in 1..Len(out.sleeps) :
              out.sleeps[j] = [after |-> j, secs |-> rate_limit_delay]
         /\ DOMAIN out.ret = {tickers[i] : i \in 1..n}
         /\ \A i \in 1..n :
              (\A k \in (i + 1)..n : tickers[k] # tickers[i]) =>
                out.ret[tickers[i]] = get_stock_candles(tickers[i], DefaultDays, "D", resps[i]).ret

\* C11 witness: one call fetched two different tickers, the first fetch failed
\* and the second gave candles, and the call slept once, between the two GETs.
C11_Witness ==
  /\ last.op = "get_multiple_tickers"
  /\ Len(httpLog) = 2
  /\ httpLog[1].symbol # httpLog[2].symbol
  /\ sleepLog = <<[after |-> 1, secs |-> rate_limit_delay]>>
  /\ DOMAIN last.ret = {httpLog[1].symbol, httpLog[2].symbol}
  /\ last.ret[httpLog[1].symbol] = <<>>
  /\ last.ret[httpLog[2].symbol] # <<>>

\* The six reference stocks in ticker order.
ReferenceTickers == <<"AAPL", "AMZN", "GOOGL", "MSFT", "NVDA", "TSLA">>

C13_TickersReferenceStocks ==
  \A t \in Tables \ {"stocks"} :
    \A r \in db[t] : \E st \in db.stocks : st.ticker = r.ticker

\* Fixture record `call` is in the store: a prediction row of its ticker and
\* trend that `before` did not have, or a watchlist entry of its pair.
SeedRecordStored(before, after, call) ==
  IF call.op = "insert_prediction"
    THEN \E r \in after.predictions \ before.predictions :
           /\ r.ticker = Val(call.pred.ticker)
           /\ r.predicted_trend = Val(call.pred.predicted_trend)
    ELSE \E w \in after.watchlists : w.user_id = call.user_id /\ w.ticker = call.ticker

\* Fixture record `call` left the store as it was.
SeedRecordAbsent(before, after, call) ==
  IF call.op = "insert_prediction"
    THEN ~\E r \in after.predictions \ before.predictions : r.ticker = Val(call.pred.ticker)
    ELSE (\E w \in after.watchlists : w.user_id = call.user_id /\ w.ticker = call.ticker)
           <=> (\E w \in before.watchlists : w.user_id = call.user_id /\ w.ticker = call.ticker)

\* C14: a run of load_seed_data.py on a fixture attempts the insert of every
\* prediction and every watchlist pair, in file order, and reaches the
\* verification step; every insert that printed no warning is in the store
\* afterwards, every insert that printed one left nothing, and no stored row
\* is lost.
C14_LoaderContinues ==
  [][ (last'.op = "load_seed_data" /\ seedFile # None) =>
        LET calls == SeedCalls(Val(seedFile))
        IN /\ last'.execs = Len(calls)
           /\ Len(last'.ret.warnings) = Len(calls)
           /\ last'.ret.verification
           /\ db.predictions \subseteq db'.predictions
           /\ db.watchlists \subseteq db'.watchlists
           /\ Cardinality(db'.predictions \ db.predictions)
                = Cardinality({i \in DOMAIN calls : calls[i].op = "insert_prediction"
                                                     /\ ~last'.ret.warnings[i]})
           /\ \A i \in DOMAIN calls :
                IF last'.ret.warnings[i] THEN SeedRecordAbsent(db, db', calls[i])
                ELSE SeedRecordStored(db, db', calls[i]) ]_vars

\* C14 witness: the loader ran on a set-up store, the insert of the second
\* prediction failed alone, the four other predictions and the nine watchlist
\* pairs are stored, and the verification step ran to its end.
C14_Witness ==
  /\ last.op = "load_seed_data"
  /\ last.exc = "none"
  /\ last.ret.verification
  /\ {i \in DOMAIN last.ret.warnings : last.ret.warnings[i]} = {2}
  /\ {r.ticker : r \in db.predictions} = {"AAPL", "GOOGL", "TSLA", "NVDA"}
  /\ Cardinality(db.watchlists) = 9

\* An article with ticker and headline and without url: the key is missing or
\* bound to None.
NewsWithoutUrl(article) ==
  /\ {"ticker", "headline"} \subseteq DOMAIN article
  /\ article.ticker # None
  /\ article.headline # None
  /\ Get(article, "url") = None

\* C15: insert_news_article of an article without url always adds one row,
\* with a NULL url and the article's ticker and headline, whatever is stored
\* (rows with that ticker and headline included), and returns its id; and
\* get_recent_news returns every stored url-less row of the ticker unless its
\* limit cuts the list, and then as many rows as the limit.
C15_NoUrlNoDedupe ==
  db.schema =>
    /\ \A article \in {a \in NewsInputs : NewsWithoutUrl(a)} :
         LET out == insert_news_article(db, article, "none")
             new == out.store.news_articles \ db.news_articles
         IN /\ out.exc = "none"
            /\ db.news_articles \subseteq out.store.news_articles
            /\ \E r \in new :
                 /\ new = {r}
                 /\ r.url = None
                 /\ r.ticker = Val(article.ticker)
                 /\ r.headline = Val(article.headline)
                 /\ out.ret = Some(r.id)
    /\ \A ticker \in StockTickers, limit \in Limits :
         \A out \in get_recent_news(db, ticker, limit, "none") :
           LET stored == {r \in db.news_articles : r.ticker = ticker}
               nourl  == {r \in stored : r.url = None}
               got    == {out.ret[i] : i \in DOMAIN out.ret}
           IN /\ out.exc = "none"
              /\ IF limit < 0 \/ limit >= Cardinality(stored)
                   THEN nourl \subseteq got
                   ELSE Len(out.ret) = limit

\* C15 witness: three articles of one ticker and headline and without url are
\* stored, and get_recent_news has just returned the three.
C15_Witness ==
  /\ last.op = "get_recent_news"
  /\ last.exc = "none"
  /\ Len(last.ret) = 3
  /\ \A i \in 1..3 : last.ret[i].url = None /\ last.ret[i].headline = last.ret[1].headline
  /\ Cardinality({r \in db.news_articles : r.url = None}) = 3

====
